---- MODULE Spec2Model ----
(***************************************************************************)
(* createPersistantStateStore: a keyed store with per-key listener lists,  *)
(* a whole-store listener list, a setter builder, the useState binding     *)
(* (useSyncExternalStore + useMemo) and deleteState.                       *)
(*                                                                         *)
(* JavaScript values are records [t, f, n]: t is the typeof tag, f names a *)
(* function, n is a number.                                                *)
(***************************************************************************)
EXTENDS Integers, Sequences, FiniteSets, TLC

VARIABLES store, listeners, storeListeners, inst, handles, calls, run, err

vars == <<store, listeners, storeListeners, inst, handles, calls, run, err>>

----------------------------------------------------------------------------
(* Bounds *)

\* numbers stored are 0..MaxVal
MaxVal == 2
\* how many times the bare listener may be registered under one key
MaxRawSubs == 2
\* how many times the whole-store listener may be registered
MaxStoreSubs == 1

----------------------------------------------------------------------------
(* Values *)

Num(n) == [t |-> "number", f |-> "", n |-> n]
Undefined == [t |-> "undefined", f |-> "", n |-> 0]
NaN == [t |-> "number", f |-> "NaN", n |-> 0]
NotExists == [t |-> "symbol", f |-> "notExists", n |-> 0]
\* prev => prev + 1
Inc == [t |-> "function", f |-> "inc", n |-> 1]
\* () => { throw }
Thrower == [t |-> "function", f |-> "throw", n |-> 0]
\* () => n, also used as the updater prev => n
Producer(n) == [t |-> "function", f |-> "const", n |-> n]

Keys == {"a", "b"}
NoKey == "none"
Insts == {"i1", "i2"}
\* the instance of the one-binding specification
Single == "i1"
RawListener == "l0"
TickKey == "a"
OtherKey == "b"
\* the keys the bare listener subscribes to
RawKeys == {"a"}
StoreListener == "s0"
\* names the closure returned by subscribeStore in `handles`
StoreHandle == "store"

Numbers == {Num(n) : n \in 0..MaxVal}
Values == {Undefined, NaN} \cup Numbers
\* the defaultValue argument of useState; Undefined is "no default"
Defaults == {Undefined, Num(0), Producer(1)}
\* the valueOrUpdator argument of a setter
SetterArgs == {Undefined, Thrower, Inc, Producer(1)} \cup Numbers
\* the setter arguments of the one-binding specification
BindingArgs == {Undefined, Num(0), Thrower, Producer(1)}

\* calling a function value; Thrower has no result (see Throws)
Call(fn, x) ==
  CASE fn.f = "inc" ->
         IF x.t = "number" /\ x.f = "" THEN Num(x.n + 1) ELSE NaN
    [] fn.f = "const" -> Num(fn.n)
    [] OTHER -> Undefined

Throws(fn) == fn.t = "function" /\ fn.f = "throw"

\* prev + 1 is a number only for a number or undefined
IncDefined(x) == x.t \in {"number", "undefined"}

----------------------------------------------------------------------------
(* Store and listener registry *)

\* `k in store`
Has(st, k) == k \in DOMAIN st

\* store[k], which is undefined for a missing property
Raw(st, k) == IF k \in DOMAIN st THEN st[k] ELSE Undefined

\* store[k] = v
Assign(st, k, v) == [x \in (DOMAIN st) \cup {k} |-> IF x = k THEN v ELSE st[x]]

\* a delete that resets the whole object when the key is missing
RemoveOrClear(st, k) ==
  IF k \in DOMAIN st THEN [x \in (DOMAIN st) \ {k} |-> st[x]] ELSE [x \in {} |-> st[x]]

\* delete store[k]
Remove(st, k) == [x \in (DOMAIN st) \ {k} |-> st[x]]

\* {}
Empty == [x \in {} |-> Undefined]

\* a removal by splice(indexOf(l), 1): a missing l removes the last entry
FilterSplice(s, l) ==
  IF \E j \in 1..Len(s) : s[j] = l
  THEN SelectSeq(s, LAMBDA x : x # l)
  ELSE SubSeq(s, 1, Len(s) - 1)

Filter(s, l) == SelectSeq(s, LAMBDA x : x # l)

Count(s, l) == Cardinality({j \in 1..Len(s) : s[j] = l})

\* getStateSnapshot testing the value instead of the key
getStateSnapshotByValue(st, k) == IF Raw(st, k) = Undefined THEN NotExists ELSE st[k]

getStateSnapshot(st, k) == IF ~Has(st, k) THEN NotExists ELSE st[k]

\* listeners[k] ?? []
ListenersOf(ls, k) == IF k \in DOMAIN ls THEN ls[k] ELSE <<>>

\* the body of subscribeState
Subscribed(ls, k, l) == Assign(ls, k, Append(ListenersOf(ls, k), l))

\* the closure returned by subscribeState throws when listeners[k] is gone
UnsubscribeThrows(ls, k) == k \notin DOMAIN ls

\* a closure that resets the key's list
UnsubscribedAll(ls, k, l) == Assign(ls, k, <<>>)

Unsubscribed(ls, k, l) == Assign(ls, k, Filter(ls[k], l))

----------------------------------------------------------------------------
(* Notification *)

\* notifyState calling the listeners of every key
notifyStateAll(ls, st, k) ==
  LET all == ListenersOf(ls, "a") \o ListenersOf(ls, "b")
  IN  [j \in 1..Len(all) |-> [l |-> all[j], seen |-> getStateSnapshot(st, k)]]

\* the invocations notifyState(k) makes, each with the snapshot of k the
\* listener reads when it runs
notifyState(ls, st, k) ==
  [j \in 1..Len(ListenersOf(ls, k)) |->
     [l |-> ListenersOf(ls, k)[j], seen |-> getStateSnapshot(st, k)]]

Invoked(cs) == {cs[j].l : j \in 1..Len(cs)}

\* a binding's listener compares the snapshot of its key with the one it
\* rendered and schedules a re-render when they differ
Changed(in, st) == getStateSnapshot(st, in.key) # in.snap

AfterNotify(ins, cs, st) ==
  [i \in Insts |->
     IF i \in Invoked(cs) /\ ins[i].phase # "unmounted" /\ Changed(ins[i], st)
     THEN [ins[i] EXCEPT !.dirty = TRUE]
     ELSE ins[i]]

----------------------------------------------------------------------------
(* State *)

Unmounted ==
  [phase |-> "unmounted", key |-> NoKey, snap |-> NotExists,
   shown |-> Undefined, sub |-> NoKey, dirty |-> FALSE]

\* what the last operation threw
NoError == ""
UpdaterError == "error thrown by the updater"
TypeError == "TypeError: listeners[stateId] is undefined"

NoRun == 0 - 1

Init ==
  /\ store = Empty
  /\ listeners = Empty
  /\ storeListeners = <<>>
  /\ inst = [i \in Insts |-> Unmounted]
  /\ handles = {}
  /\ calls = <<>>
  /\ run = [k \in Keys |-> NoRun]
  /\ err = NoError

\* the count of consecutive setter(prev => prev + 1) calls on a key since it
\* held 0
RunAfterWrite(k, v) == [run EXCEPT ![k] = IF v = Num(0) THEN 0 ELSE NoRun]

----------------------------------------------------------------------------
(* The setter built by setStateBuilder(k) *)

\* a setter that stores a function argument instead of calling it
setStateBuilderNoCall(st, k, arg) == Assign(st, k, arg)

\* the store after setter(arg) returns normally
setStateBuilder(st, k, arg) ==
  IF arg.t = "function"
  THEN Assign(st, k, Call(arg, Raw(st, k)))
  ELSE Assign(st, k, arg)

\* a setter that notifies before it writes
SetterNotifiesBeforeWrite(ls, st, k) == notifyState(ls, store, k)

\* the invocations a setter call makes after its write
SetterNotifies(ls, st, k) == notifyState(ls, st, k)

\* a setter that clears the key before it calls the updater
SetterThrowsAfterWrite(k) ==
  /\ store' = Assign(store, k, Undefined)
  /\ UNCHANGED <<inst, run>>
  /\ calls' = <<>>
  /\ err' = UpdaterError

\* the updater threw: the assignment and notifyState are never reached
SetterThrows(k) ==
  /\ UNCHANGED <<store, inst, run>>
  /\ calls' = <<>>
  /\ err' = UpdaterError

\* the updater returned, or the argument is a value: write, then notify
SetterReturns(k, arg) ==
  /\ store' = setStateBuilder(store, k, arg)
  /\ calls' = SetterNotifies(listeners, store', k)
  /\ inst' = AfterNotify(inst, calls', store')
  /\ run' = IF arg = Inc /\ run[k] # NoRun
            THEN [run EXCEPT ![k] = @ + 1]
            ELSE RunAfterWrite(k, store'[k])
  /\ err' = NoError

\* one call setStateBuilder(k)(arg)
SetState(k, arg) ==
  /\ arg = Inc => /\ IncDefined(Raw(store, k))
                  /\ Call(Inc, Raw(store, k)) \in Values
  /\ IF Throws(arg) THEN SetterThrows(k) ELSE SetterReturns(k, arg)
  /\ UNCHANGED <<listeners, storeListeners, handles>>

----------------------------------------------------------------------------
(* useState(k, d) *)

\* finalDefaultValue: a function default is called with no argument
FinalDefault(d) == IF d.t = "function" THEN Call(d, Undefined) ELSE d

\* a useMemo callback that writes the default whatever the snapshot is
useMemoBodyAlways(st, k, snapshot, d) ==
  IF d # Undefined
  THEN [st |-> Assign(st, k, FinalDefault(d)), val |-> FinalDefault(d), wrote |-> TRUE]
  ELSE [st |-> st, val |-> IF snapshot = NotExists THEN Undefined ELSE snapshot,
        wrote |-> FALSE]

\* a useMemo callback that takes a stored undefined for a missing key
useMemoBodyUndefined(st, k, snapshot, d) ==
  IF snapshot \in {NotExists, Undefined} /\ d # Undefined
  THEN [st |-> Assign(st, k, FinalDefault(d)), val |-> FinalDefault(d), wrote |-> TRUE]
  ELSE [st |-> st, val |-> IF snapshot = NotExists THEN Undefined ELSE snapshot,
        wrote |-> FALSE]

\* a useMemo callback that writes a missing default too
useMemoBodyNoDefault(st, k, snapshot, d) ==
  IF snapshot = NotExists
  THEN [st |-> Assign(st, k, FinalDefault(d)), val |-> FinalDefault(d), wrote |-> TRUE]
  ELSE [st |-> st, val |-> snapshot, wrote |-> FALSE]

\* the callback given to useMemo: the store it leaves, the value it returns
\* and whether it called notifyState
useMemoBody(st, k, snapshot, d) ==
  IF snapshot = NotExists /\ d # Undefined
  THEN [st |-> Assign(st, k, FinalDefault(d)), val |-> FinalDefault(d), wrote |-> TRUE]
  ELSE IF snapshot = NotExists
  THEN [st |-> st, val |-> Undefined, wrote |-> FALSE]
  ELSE [st |-> st, val |-> snapshot, wrote |-> FALSE]

\* the instance after a render that read `snapshot` and returned `val`
Rendered(in, k, snapshot, val) ==
  [phase |-> "rendered", key |-> k, snap |-> snapshot, shown |-> val,
   sub |-> in.sub, dirty |-> FALSE]

\* one call of useState(k, d) by instance i in which useMemo runs its
\* callback: a first render, a render whose [snapshot, defaultValue, stateId]
\* differ from the previous one's (a default that is a fresh object or
\* function always differs), or a render after React dropped the cached value
\* a subscription that trusts the snapshot read while rendering
RecheckNever(in, st) == in.dirty

\* after subscribing, the snapshot is read again and a change since the
\* render schedules a re-render
Recheck(in, st) == in.dirty \/ Changed(in, st)

Render(i, k, d) ==
  LET snapshot == getStateSnapshot(store, k)
      memo == useMemoBody(store, k, snapshot, d)
  IN  /\ store' = memo.st
      /\ calls' = IF memo.wrote THEN notifyState(listeners, memo.st, k) ELSE <<>>
      /\ inst' = AfterNotify([inst EXCEPT ![i] = Rendered(inst[i], k, snapshot, memo.val)],
                             calls', store')
      /\ run' = IF memo.wrote THEN RunAfterWrite(k, memo.val) ELSE run
      /\ err' = NoError
      /\ UNCHANGED <<listeners, storeListeners, handles>>

\* one call of useState by instance i with the stateId and the defaultValue
\* (same identity) of its last committed render, reading the same snapshot:
\* useMemo returns the value it cached and its callback does not run
RenderCached(i) ==
  /\ inst[i].phase = "committed"
  /\ getStateSnapshot(store, inst[i].key) = inst[i].snap
  /\ inst' = [inst EXCEPT ![i] = Rendered(inst[i], inst[i].key, inst[i].snap, inst[i].shown)]
  /\ calls' = <<>>
  /\ err' = NoError
  /\ UNCHANGED <<store, listeners, storeListeners, handles, run>>

\* the commit of instance i's last render. The subscribe argument is a new
\* closure in every render, so useSyncExternalStore calls the closure returned
\* for the previous render, subscribes under the rendered key and re-reads the
\* snapshot, scheduling a re-render when it differs from the rendered one.
\* When the returned closure throws the component is torn down; whether the
\* new subscription was made and cleaned up before that is left open.
Commit(i) ==
  /\ inst[i].phase = "rendered"
  /\ LET old == inst[i].sub
         k == inst[i].key
     IN  IF old # NoKey /\ UnsubscribeThrows(listeners, old)
         THEN /\ listeners' \in {listeners,
                                 Unsubscribed(Subscribed(listeners, k, i), k, i)}
              /\ inst' = [inst EXCEPT ![i] = Unmounted]
              /\ err' = TypeError
         ELSE /\ listeners' =
                   Subscribed(IF old # NoKey THEN Unsubscribed(listeners, old, i)
                                             ELSE listeners, k, i)
              /\ inst' = [inst EXCEPT ![i].phase = "committed", ![i].sub = k,
                                      ![i].dirty = Recheck(inst[i], store)]
              /\ err' = NoError
  /\ calls' = <<>>
  /\ UNCHANGED <<store, storeListeners, handles, run>>

\* instance i is torn down: its subscription's cleanup runs
Unmount(i) ==
  /\ inst[i].phase # "unmounted"
  /\ LET old == inst[i].sub
     IN  IF old = NoKey
         THEN /\ UNCHANGED listeners
              /\ err' = NoError
         ELSE IF UnsubscribeThrows(listeners, old)
         THEN /\ UNCHANGED listeners
              /\ err' = TypeError
         ELSE /\ listeners' = Unsubscribed(listeners, old, i)
              /\ err' = NoError
  /\ inst' = [inst EXCEPT ![i] = Unmounted]
  /\ calls' = <<>>
  /\ UNCHANGED <<store, storeListeners, handles, run>>

----------------------------------------------------------------------------
(* deleteState(k) *)

\* a read that creates the property it looks up
AfterSnapshotTouch(st, k) == IF Has(st, k) THEN st ELSE Assign(st, k, Undefined)

\* the store after getStateSnapshot(k): the function assigns nothing
AfterSnapshot(st, k) == st

\* React (or any caller) reads the snapshot of k outside a render
GetSnapshot(k) ==
  /\ store' = AfterSnapshot(store, k)
  /\ calls' = <<>>
  /\ err' = NoError
  /\ UNCHANGED <<listeners, storeListeners, inst, handles, run>>

deleteState(k) ==
  /\ store' = Remove(store, k)
  /\ listeners' = Remove(listeners, k)
  /\ run' = [run EXCEPT ![k] = NoRun]
  /\ calls' = <<>>
  /\ err' = NoError
  /\ UNCHANGED <<storeListeners, inst, handles>>

----------------------------------------------------------------------------
(* subscribeState and subscribeStore called with a bare listener *)

subscribeState(k) ==
  /\ Count(ListenersOf(listeners, k), RawListener) < MaxRawSubs
  /\ listeners' = Subscribed(listeners, k, RawListener)
  /\ handles' = handles \cup {k}
  /\ calls' = <<>>
  /\ err' = NoError
  /\ UNCHANGED <<store, storeListeners, inst, run>>

\* a closure returned by subscribeState(k, l0) is called
unsubscribeState(k) ==
  /\ k \in handles
  /\ IF UnsubscribeThrows(listeners, k)
     THEN /\ UNCHANGED listeners
          /\ err' = TypeError
     ELSE /\ listeners' = Unsubscribed(listeners, k, RawListener)
          /\ err' = NoError
  /\ calls' = <<>>
  /\ UNCHANGED <<store, storeListeners, inst, handles, run>>

subscribeStore ==
  /\ Len(storeListeners) < MaxStoreSubs
  /\ storeListeners' = Append(storeListeners, StoreListener)
  /\ handles' = handles \cup {StoreHandle}
  /\ calls' = <<>>
  /\ err' = NoError
  /\ UNCHANGED <<store, listeners, inst, run>>

\* a closure returned by subscribeStore(s0) is called
unsubscribeStore ==
  /\ StoreHandle \in handles
  /\ storeListeners' = Filter(storeListeners, StoreListener)
  /\ calls' = <<>>
  /\ err' = NoError
  /\ UNCHANGED <<store, listeners, inst, handles, run>>

----------------------------------------------------------------------------

\* one binding instance, a bare listener on RawKeys
Next ==
  \/ \E k \in Keys, arg \in BindingArgs : SetState(k, arg)
  \/ \E k \in Keys, d \in Defaults : Render(Single, k, d)
  \/ RenderCached(Single)
  \/ Commit(Single)
  \/ Unmount(Single)
  \/ \E k \in Keys : deleteState(k)
  \/ \E k \in RawKeys : subscribeState(k)
  \/ \E k \in RawKeys : unsubscribeState(k)

Spec == Init /\ [][Next]_vars

\* the registry alone: bare listeners on every key and the whole-store
\* listener of useStore
NextStore ==
  \/ \E k \in Keys, arg \in SetterArgs : SetState(k, arg)
  \/ \E k \in Keys : deleteState(k)
  \/ \E k \in Keys : subscribeState(k)
  \/ \E k \in Keys : unsubscribeState(k)
  \/ subscribeStore
  \/ unsubscribeStore

SpecStore == Init /\ [][NextStore]_vars

\* two binding instances calling useState on TickKey in one tick: only
\* renders and commits happen; the other key holds anything
InitSameTick ==
  /\ store \in {Empty} \cup {Assign(Empty, OtherKey, v) : v \in Values}
  /\ listeners = Empty
  /\ storeListeners = <<>>
  /\ inst = [i \in Insts |-> Unmounted]
  /\ handles = {}
  /\ calls = <<>>
  /\ run = [k \in Keys |-> NoRun]
  /\ err = NoError

NextSameTick ==
  \/ \E i \in Insts, d \in Defaults : Render(i, TickKey, d)
  \/ \E i \in Insts : RenderCached(i)
  \/ \E i \in Insts : Commit(i)

SpecSameTick == InitSameTick /\ [][NextSameTick]_vars

\* One binding, a bare listener and a whole-store listener: both kinds of
\* unsubscribe closure next to listeners they must not touch, and snapshot
\* reads made at any moment.
NextRegistry ==
  \/ Next
  \/ subscribeStore
  \/ unsubscribeStore
  \/ \E k \in Keys : GetSnapshot(k)

SpecRegistry == Init /\ [][NextRegistry]_vars

----------------------------------------------------------------------------
(* Properties *)

Range(q) == {q[j] : j \in 1..Len(q)}

\* what the default d materializes to
FinalOf(d) == IF d.t = "function" THEN Num(d.n) ELSE d

\* the instance called useState with a default or read a stored value
HadValue(in) == in.snap # NotExists \/ in.shown # Undefined

\* C1: default-once. From a store without TickKey, with two binding
\* instances calling useState(TickKey, d) in one tick in any order and with any
\* defaults: the first call with a default writes it, once TickKey is in the
\* store no later call changes the store or notifies again, and every instance
\* that passed a default or read a value returns the value the store holds.
C1_DefaultOnce ==
  /\ [](\A i \in Insts :
          inst[i].phase # "unmounted" /\ HadValue(inst[i])
            => Has(store, TickKey) /\ inst[i].shown = store[TickKey])
  /\ [][/\ Has(store, TickKey) => store' = store /\ calls' = <<>>
        /\ \A i \in Insts, d \in Defaults \ {Undefined} :
             Render(i, TickKey, d) /\ ~Has(store, TickKey)
               => Has(store', TickKey) /\ store'[TickKey] = FinalOf(d)]_vars

\* one instance materialized its default and the other, called afterwards,
\* returns that same value
C1_Witness ==
  /\ inst["i1"].phase # "unmounted" /\ inst["i2"].phase # "unmounted"
  /\ inst["i2"].snap = NotExists /\ inst["i2"].shown = Num(1)
  /\ inst["i1"].snap = Num(1) /\ inst["i1"].shown = Num(1)
  /\ store[TickKey] = Num(1)

\* C2: sentinel separation. In every state and for every key,
\* getStateSnapshot returns the NotExists sentinel exactly when the key is not
\* in the store, and the stored value itself (undefined and 0 included) when
\* it is.
C2_SentinelSeparation ==
  \A k \in Keys :
    /\ getStateSnapshot(store, k) = NotExists <=> k \notin DOMAIN store
    /\ k \in DOMAIN store => getStateSnapshot(store, k) = store[k]

\* one key holds undefined, the other was never written
C2_Witness ==
  /\ Has(store, "a") /\ store["a"] = Undefined
  /\ getStateSnapshot(store, "a") = Undefined
  /\ ~Has(store, "b")

\* C3: materialization only while absent. A useState call on a key that is
\* in the store, whatever it holds and whatever default is passed, returns
\* the stored value, leaves the store unchanged and invokes no listener.
C3_NoRematerialization ==
  [][/\ \A k \in Keys, d \in Defaults :
          Render(Single, k, d) /\ Has(store, k)
            => /\ store' = store
               /\ calls' = <<>>
               /\ inst'[Single].shown = store[k]
     /\ RenderCached(Single) /\ Has(store, inst[Single].key)
          => /\ store' = store
             /\ calls' = <<>>
             /\ inst'[Single].shown = store[inst[Single].key]]_vars

\* the instance has just rendered a key that holds undefined and has a
\* listener: it returned undefined and the store still holds undefined
C3_Witness ==
  /\ inst[Single].phase = "rendered"
  /\ inst[Single].snap = Undefined /\ inst[Single].shown = Undefined
  /\ Has(store, inst[Single].key) /\ store[inst[Single].key] = Undefined
  /\ ListenersOf(listeners, inst[Single].key) # <<>>
  /\ calls = <<>>

\* C4: no default, no write. useState(k) without a default on a key that is
\* not in the store returns undefined, leaves the key out of the store
\* (getStateSnapshot still returns the sentinel) and invokes no listener.
C4_NoDefaultNoWrite ==
  [][/\ \A k \in Keys :
          Render(Single, k, Undefined) /\ ~Has(store, k)
            => /\ inst'[Single].shown = Undefined
               /\ store' = store
               /\ getStateSnapshot(store', k) = NotExists
               /\ calls' = <<>>
     /\ (/\ RenderCached(Single)
         /\ ~Has(store, inst[Single].key)
         /\ inst[Single].shown = Undefined)
          => /\ inst'[Single].shown = Undefined
             /\ store' = store
             /\ calls' = <<>>]_vars

\* the instance has rendered an absent key without a default while a
\* listener is registered for that key
C4_Witness ==
  /\ inst[Single].phase = "rendered"
  /\ inst[Single].snap = NotExists /\ inst[Single].shown = Undefined
  /\ ~Has(store, inst[Single].key)
  /\ ListenersOf(listeners, inst[Single].key) # <<>>
  /\ calls = <<>>

\* the listeners registered under a and not under b
OnlyUnder(a, b) == Range(ListenersOf(listeners, a)) \ Range(ListenersOf(listeners, b))

\* C5: notification scoping. For distinct keys a and b, a setter call for b
\* and a useState call materializing b's default invoke no listener
\* registered only under a and leave a's presence and value unchanged.
C5_NotificationScoping ==
  [][\A b \in Keys : \A a \in Keys \ {b} :
       (\/ \E arg \in SetterArgs : SetState(b, arg)
        \/ \E d \in Defaults : Render(Single, b, d))
         => /\ Has(store', a) <=> Has(store, a)
            /\ Raw(store', a) = Raw(store, a)
            /\ OnlyUnder(a, b) \cap Invoked(calls') = {}]_vars

\* a write to b has just notified b's listener while a has a listener of its
\* own, which was not invoked
C5_Witness ==
  /\ ListenersOf(listeners, "a") = <<RawListener>>
  /\ ListenersOf(listeners, "b") = <<Single>>
  /\ Invoked(calls) = {Single}
  /\ Has(store, "a")

\* C6: a setter call notifies every whole-store listener. Whenever a listener
\* is registered through subscribeStore, every setter call that returns
\* invokes it.
C6_AsClaimed ==
  [][\A k \in Keys, arg \in SetterArgs :
       SetState(k, arg) /\ ~Throws(arg) /\ storeListeners # <<>>
         => StoreListener \in Invoked(calls')]_vars

\* what setter(arg) must leave under k, from the store st before the call
ExpectedValue(st, k, arg) ==
  IF arg = Inc
  THEN IF k \in DOMAIN st /\ st[k] \in Numbers THEN Num(st[k].n + 1) ELSE NaN
  ELSE IF arg.t = "function" THEN Num(arg.n) ELSE arg

\* C7: updater semantics. A setter call with a function stores the function's
\* result on the raw stored value (undefined for an absent key), a call with
\* a value stores the value; n consecutive setter(prev => prev + 1) calls on
\* a key holding 0 leave it holding n.
C7_UpdaterSemantics ==
  /\ [][\A k \in Keys, arg \in SetterArgs :
          SetState(k, arg) /\ ~Throws(arg)
            => Has(store', k) /\ store'[k] = ExpectedValue(store, k, arg)]_vars
  /\ [](\A k \in Keys :
          run[k] # NoRun => Has(store, k) /\ store[k] = Num(run[k]))

\* two consecutive increments of a key that held 0, and an increment of an
\* absent key
C7_Witness ==
  /\ run["a"] = MaxVal /\ MaxVal >= 2
  /\ Has(store, "b") /\ store["b"] = NaN

\* C8: synchronous ordered notification. A setter call on k writes the new
\* value and, within the call, invokes the listeners registered for k when
\* the call started, one invocation per registration and in registration
\* order; each of them reads the new value from getStateSnapshot(k).
C8_OrderedNotification ==
  [][\A k \in Keys, arg \in SetterArgs :
       SetState(k, arg) /\ ~Throws(arg)
         => /\ Len(calls') = Len(ListenersOf(listeners, k))
            /\ \A j \in 1..Len(calls') :
                 /\ calls'[j].l = ListenersOf(listeners, k)[j]
                 /\ calls'[j].seen = ExpectedValue(store, k, arg)
            /\ listeners' = listeners]_vars

\* a setter call has just invoked the bare listener and then the binding's
\* listener, which both read the value the call stored
C8_Witness ==
  /\ Len(calls) = 2
  /\ calls[1].l = RawListener /\ calls[2].l = Single
  /\ calls[1].seen = Num(1) /\ calls[2].seen = Num(1)
  /\ store["a"] = Num(1)

\* C9: a failed update leaves no trace. When the updater throws, the error
\* reaches the caller, the store is as before the call and no listener is
\* invoked.
C9_FailedUpdate ==
  [][\A k \in Keys :
       SetState(k, Thrower)
         => /\ err' = UpdaterError
            /\ store' = store
            /\ listeners' = listeners
            /\ calls' = <<>>
            /\ inst' = inst]_vars

\* a throwing updater has just been called on a key that holds a value and
\* has two listeners
C9_Witness ==
  /\ err = UpdaterError
  /\ Has(store, "a") /\ store["a"] = Num(1)
  /\ Len(ListenersOf(listeners, "a")) = 2
  /\ calls = <<>>

\* C10: delete clears both. deleteState(k) leaves k out of the store and
\* without a listener list; afterwards every useState(k, d2) with a default,
\* made once a listener is subscribed to k again, writes d2 to the store and
\* returns it, as for a key never written.
C10_AsClaimed ==
  [][/\ \A k \in Keys :
          deleteState(k)
            => /\ ~Has(store', k)
               /\ k \notin DOMAIN listeners'
               /\ getStateSnapshot(store', k) = NotExists
     /\ \A k \in Keys, d \in Defaults \ {Undefined} :
          Render(Single, k, d) /\ ~Has(store, k) /\ ListenersOf(listeners, k) # <<>>
            => /\ Has(store', k)
               /\ store'[k] = FinalOf(d)
               /\ inst'[Single].shown = FinalOf(d)
     /\ (/\ RenderCached(Single)
         /\ ~Has(store, inst[Single].key)
         /\ ListenersOf(listeners, inst[Single].key) # <<>>
         /\ inst[Single].shown # Undefined)
          => /\ Has(store', inst[Single].key)
             /\ store'[inst[Single].key] = inst'[Single].shown]_vars

Others(q, l) == SelectSeq(q, LAMBDA x : x # l)

\* what an unsubscription of l under k must leave alone
UnsubscribeFrame(k, l) ==
  /\ DOMAIN listeners' = DOMAIN listeners
  /\ Others(ListenersOf(listeners', k), l) = Others(ListenersOf(listeners, k), l)
  /\ \A k2 \in Keys \ {k} : ListenersOf(listeners', k2) = ListenersOf(listeners, k2)
  /\ store' = store

\* C12: unsubscribe frame. Unsubscribing a listener from k (the bare
\* listener's closure, or a binding's cleanup at unmount) leaves every other
\* listener of k registered in the same relative order, the lists of the
\* other keys unchanged and the store unchanged.
C12_UnsubscribeFrame ==
  [][/\ \A k \in RawKeys : unsubscribeState(k) => UnsubscribeFrame(k, RawListener)
     /\ (Unmount(Single) /\ inst[Single].sub # NoKey)
          => UnsubscribeFrame(inst[Single].sub, Single)]_vars

\* the bare listener was unsubscribed from a list that keeps the binding's
\* listener, with a value stored and a list under the other key
C12_Witness ==
  /\ "a" \in handles
  /\ "a" \in DOMAIN listeners
  /\ listeners["a"] = <<Single>>
  /\ inst[Single].sub = "a"
  /\ Has(store, "a")
  /\ "b" \in DOMAIN listeners
  /\ err = NoError

\* C13: no lost notification. A value written to k between a binding's
\* render-time read and its subscription at commit is observed: the commit
\* subscribes and reads the snapshot again, so a snapshot that differs from
\* the rendered one leaves a re-render scheduled; and at every moment a
\* binding whose listener is registered under its key, and whose rendered
\* snapshot differs from the store's, has a re-render scheduled.
C13_NoLostNotification ==
  /\ [][(Commit(Single) /\ err' = NoError /\ Changed(inst[Single], store))
          => /\ inst'[Single].dirty
             /\ Single \in Range(ListenersOf(listeners', inst[Single].key))]_vars
  /\ [](\A i \in Insts :
          (/\ inst[i].phase # "unmounted"
           /\ i \in Range(ListenersOf(listeners, inst[i].key))
           /\ Changed(inst[i], store))
            => inst[i].dirty)

\* a first mount rendered the absent key, a set wrote 1 before the commit,
\* and the commit scheduled the re-render
C13_Witness ==
  /\ inst[Single].phase = "committed"
  /\ inst[Single].key = "a"
  /\ inst[Single].snap = NotExists
  /\ inst[Single].shown = Undefined
  /\ Has(store, "a") /\ store["a"] = Num(0)
  /\ inst[Single].dirty
  /\ listeners["a"] = <<Single>>
  /\ calls = <<>>
  /\ handles = {}

\* C14: re-subscription on key change. When a binding subscribed under k1
\* commits a call made with a different key k2, its listener is registered
\* under k2 and no longer under k1, so that a set on k1 does not invoke it and
\* a set on k2 does.
C14_AsClaimed ==
  [][(/\ Commit(Single)
      /\ inst[Single].sub # NoKey
      /\ inst[Single].sub # inst[Single].key)
       => /\ Single \in Range(ListenersOf(listeners', inst[Single].key))
          /\ Single \notin Range(ListenersOf(listeners', inst[Single].sub))
          /\ Single \in Invoked(notifyState(listeners', store', inst[Single].key))
          /\ Single \notin Invoked(notifyState(listeners', store', inst[Single].sub))]_vars

\* C15: deleting a nonexistent key is a no-op. deleteState(k) for a key that
\* is absent from the store and has no listener list raises no error and
\* leaves the store, the listener lists of all keys, the store listeners and
\* the bindings unchanged.
C15_DeleteAbsent ==
  [][\A k \in Keys :
       (deleteState(k) /\ ~Has(store, k) /\ k \notin DOMAIN listeners)
         => /\ err' = NoError
            /\ store' = store
            /\ listeners' = listeners
            /\ storeListeners' = storeListeners
            /\ inst' = inst]_vars

\* "b" is absent and without a list after a call that raised nothing, next
\* to a stored value and two listeners under "a"
C15_Witness ==
  /\ ~Has(store, "b") /\ "b" \notin DOMAIN listeners
  /\ run["b"] = NoRun
  /\ Has(store, "a") /\ store["a"] = Num(1)
  /\ Len(ListenersOf(listeners, "a")) = 2
  /\ inst[Single].phase = "committed"
  /\ err = NoError
  /\ calls = <<>>

\* C16: snapshot reads are pure. A getStateSnapshot(k) call, for a present
\* or an absent key, changes neither the store nor any listener list nor the
\* store listeners, so the read that follows it with no write in between
\* returns the same result for every key.
C16_PureSnapshot ==
  [][\A k \in Keys :
       GetSnapshot(k)
         => /\ store' = store
            /\ listeners' = listeners
            /\ storeListeners' = storeListeners
            /\ \A k2 \in Keys :
                 getStateSnapshot(store', k2) = getStateSnapshot(store, k2)]_vars

\* reads were possible of a present key holding undefined and of an absent
\* key, with listeners of both kinds registered, and the last step raised
\* and invoked nothing
C16_Witness ==
  /\ Has(store, "a") /\ store["a"] = Undefined
  /\ ~Has(store, "b")
  /\ ListenersOf(listeners, "a") = <<Single, RawListener>>
  /\ storeListeners # <<>>
  /\ err = NoError
  /\ calls = <<>>

\* C17: materialization notifies. Every useState(k, d) call that finds k
\* absent with a default other than undefined writes the computed default
\* (d() for a function, d otherwise) to the store under k and then invokes
\* every listener registered for k, each of which reads the written value.
C17_AsClaimed ==
  [][/\ \A k \in Keys, d \in Defaults \ {Undefined} :
          Render(Single, k, d) /\ ~Has(store, k)
            => /\ Has(store', k) /\ store'[k] = FinalOf(d)
               /\ Len(calls') = Len(ListenersOf(listeners, k))
               /\ \A j \in 1..Len(calls') :
                    /\ calls'[j].l = ListenersOf(listeners, k)[j]
                    /\ calls'[j].seen = FinalOf(d)
     /\ (/\ RenderCached(Single)
         /\ ~Has(store, inst[Single].key)
         /\ inst[Single].shown # Undefined)
          => /\ Has(store', inst[Single].key)
             /\ store'[inst[Single].key] = inst'[Single].shown
             /\ Invoked(calls') = Range(ListenersOf(listeners, inst[Single].key))]_vars

\* C18: symmetric registration. When the same callback is registered more
\* than once under k, one call of a returned unsubscribe function removes one
\* registration only, and the callback is still invoked by the next set on k.
C18_AsClaimed ==
  [][\A k \in Keys :
       (unsubscribeState(k) /\ Count(ListenersOf(listeners, k), RawListener) >= 2)
         => /\ Count(ListenersOf(listeners', k), RawListener)
                 = Count(ListenersOf(listeners, k), RawListener) - 1
            /\ RawListener \in Invoked(notifyState(listeners', store', k))]_vars

\* C19: unsubscribe never fails. After any sequence of operations, a call of
\* an unsubscribe function returned earlier by subscribeState(k, l) completes
\* without raising an error, also when deleteState(k) was called after the
\* subscription and nothing has subscribed to k since.
C19_AsClaimed ==
  [][\A k \in Keys : unsubscribeState(k) => err' = NoError]_vars

\* C20: a live subscription keeps being notified. A binding's listener,
\* registered with subscribeState(k, l) at commit and not unsubscribed since
\* (the binding is still mounted with its subscription under k), is invoked by
\* every later setter call on k that returns, whatever happened in between,
\* deleteState(k) included; and the mounted binding is left with a re-render
\* scheduled whenever the store's content for k differs from what it rendered.
C20_AsClaimed ==
  [][\A k \in Keys, arg \in BindingArgs :
       (/\ SetState(k, arg)
        /\ ~Throws(arg)
        /\ inst[Single].phase = "committed"
        /\ inst[Single].sub = k)
         => /\ Single \in Invoked(calls')
            /\ Changed(inst'[Single], store') => inst'[Single].dirty]_vars

====
